---- MODULE Spec2Model ----
(***************************************************************************)
(* Model of the run engine of ralph-cli (src/src/commands/run.rs): the     *)
(* synchronous preparation of a run (task-list load, tool resolution,      *)
(* zero-pending short-circuit, branch archival, progress-log creation),    *)
(* the iteration loop, the supervision of one agent child with its two     *)
(* output pipes, and the Ctrl+C listener.                                   *)
(*                                                                         *)
(* Strings the code compares as a whole (tool names, file names) are TLA+  *)
(* strings.  Strings the code takes apart (the branch identifier: trim,    *)
(* strip_prefix, path joining) are sequences of one-character strings; a   *)
(* path is the sequence of its components, each component one string.      *)
(* A calendar day is one token ("d0", "d1", ...): the ten characters of    *)
(* "%Y-%m-%d", none of which is a slash or white space.                     *)
(***************************************************************************)
EXTENDS Integers, Sequences, FiniteSets, TLC

VARIABLES
    \* ---- the environment of a run
    files,          \* the run directory: path (sequence of components) -> content
    dirs,           \* the directories that exist below the run directory
    today,          \* index of the calendar day
    clock,          \* index of the wall-clock second (strictly grows per run)
    installed,      \* the commands that can be launched from PATH
    config,         \* Config: [default_tool, max_iterations]
    prdName,        \* file name of the task list given by --prd
    \* ---- locals of run_run
    pc,             \* position of the control thread
    prd,            \* the Prd loaded at the start of the run
    tool_cmd,       \* the resolved tool command
    max_iter,       \* max_iter
    current_iteration,
    running,        \* the shared AtomicBool
    listener,       \* the Ctrl+C task: "none", "armed", "fired"
    result,         \* what run_run returned: "none", "Ok", "Err"
    printed,        \* the announcements written to the operator
    summary,        \* the "Run Summary" block, or NoSummary
    \* ---- locals of run_agent_iteration and the child process
    child,          \* "none", "running", "exited" (not waited for), "reaped"
    exitOk,         \* the exit status of the child is success
    stdinPipe,      \* "none", "open" (the child can read it), "closed" (by the
                    \* supervisor, prompt written), "broken" (no reader is left)
    outBuf,         \* lines in the stdout pipe, oldest first
    errBuf,         \* lines in the stderr pipe, oldest first
    outOpen,        \* the child still holds the write end of stdout
    errOpen,        \* the child still holds the write end of stderr
    linesLeft,      \* lines the child may still write (bound of the model)
    found_complete, \* found_complete
    \* ---- history of the run, read by the properties only
    spawned,        \* children spawned in this run
    hist            \* record of what happened in this run

engineVars == <<pc, prd, tool_cmd, max_iter, current_iteration, running,
                listener, result, printed, summary>>
childVars == <<child, exitOk, stdinPipe, outBuf, errBuf, outOpen, errOpen,
               linesLeft, found_complete>>
histVars == <<spawned, hist>>
envVars == <<files, dirs, today, clock, installed, config, prdName>>
vars == <<envVars, engineVars, childVars, histVars>>

----------------------------------------------------------------------------
(* Bounds of the model *)

MaxIterBound == 2   \* largest iteration budget a run is given
MaxLines == 2       \* lines one child writes at most
MaxRuns == 2        \* runs in a row over the same run directory
MaxDay == 1         \* the calendar advances at most this many days
MaxInterrupts == 2  \* Ctrl+C is pressed at most this many times in a run
MaxSwitchRuns == 3  \* runs in a row when the branch is switched back and forth
PipeCap == 1        \* units (lines, blocks of the prompt) a pipe buffer holds

\* Length of the embedded prompt, in the units of PipeCap
PromptLen == 2

(* Program constants *)

DefaultMaxIter == 10        \* unwrap_or(10)

\* current_iteration and max_iter are u32.  The counter starts at 1 and is
\* raised by one per iteration up to max_iter + 1, so with the budgets of
\* this model (at most DefaultMaxIter) it stays far from 2^32 - 1 and the
\* arithmetic is that of the integers.

None == "None"                              \* Option<String>::None
Some(n) == [some |-> TRUE, v |-> n]         \* Option<u32>
NoneU32 == [some |-> FALSE, v |-> 0]
NoFile == [kind |-> "absent"]
NoSummary == [iterations |-> -1, max |-> -1, completed |-> -1, total |-> -1]

----------------------------------------------------------------------------
(* Strings as sequences of characters *)

WhiteSpace == {" ", "\n", "\t"}

RECURSIVE TrimStart(_)
TrimStart(s) ==
    IF s = <<>> THEN s
    ELSE IF Head(s) \in WhiteSpace THEN TrimStart(Tail(s)) ELSE s

RECURSIVE TrimEnd(_)
TrimEnd(s) ==
    IF s = <<>> THEN s
    ELSE IF s[Len(s)] \in WhiteSpace THEN TrimEnd(SubSeq(s, 1, Len(s) - 1)) ELSE s

\* str::trim
Trim(s) == TrimEnd(TrimStart(s))

StartsWith(s, p) == Len(s) >= Len(p) /\ SubSeq(s, 1, Len(p)) = p

\* s.strip_prefix(p).unwrap_or(s)
StripPrefixOr(s, p) ==
    IF StartsWith(s, p) THEN SubSeq(s, Len(p) + 1, Len(s)) ELSE s

RalphPrefix == <<"r", "a", "l", "p", "h", "/">>

\* Local::now().format("%Y-%m-%d"): one token per day
DateStr(d) == <<"d" \o ToString(d)>>

\* format!("{}-{}", date, folder_name)
FolderString(d, name) == DateStr(d) \o <<"-">> \o name

\* The components of a relative path string: split at "/", empty components
\* dropped (Path::join / Path::components).  cur is the component being read;
\* each component comes out as one string.
RECURSIVE Components(_, _)
Components(s, cur) ==
    IF s = <<>> THEN (IF cur = "" THEN <<>> ELSE <<cur>>)
    ELSE IF Head(s) = "/"
         THEN (IF cur = "" THEN <<>> ELSE <<cur>>) \o Components(Tail(s), "")
         ELSE Components(Tail(s), cur \o Head(s))

----------------------------------------------------------------------------
(* The task list (src/src/prd.rs) *)

RECURSIVE CountOf(_, _)
CountOf(stories, b) ==
    IF stories = <<>> THEN 0
    ELSE (IF Head(stories) = b THEN 1 ELSE 0) + CountOf(Tail(stories), b)

total_stories(p) == Len(p.stories)
completed_stories(p) == CountOf(p.stories, TRUE)
pending_stories(p) == CountOf(p.stories, FALSE)

PrdContent(branch, stories) ==
    [kind |-> "prd", branch |-> branch, stories |-> stories]

\* Prd::from_file: the parsed task list, or an error
from_file(fl, path) ==
    IF path \in DOMAIN fl /\ fl[path].kind = "prd"
    THEN [ok |-> TRUE, prd |-> fl[path]]
    ELSE [ok |-> FALSE, prd |-> NoFile]

----------------------------------------------------------------------------
(* The run directory *)

LastBranchPath == <<".last-branch">>
ProgressPath == <<"progress.txt">>
PrdJsonPath == <<"prd.json">>

Exists(fl, path) == path \in DOMAIN fl

\* What a path holds in a directory state, NoFile when nothing
ContentAt(fl, path) == IF Exists(fl, path) THEN fl[path] ELSE NoFile

WriteFile(fl, path, content) ==
    [p \in DOMAIN fl \cup {path} |-> IF p = path THEN content ELSE fl[p]]

BranchContent(text) == [kind |-> "text", text |-> text]
ProgressContent(started, log) == [kind |-> "progress", started |-> started, log |-> log]

\* "# Ralph Progress Log\nStarted: <now>\n---\n"
FreshHeader(now) == ProgressContent(now, 0)

\* All prefixes of a path, the path itself included (create_dir_all)
Ancestors(path) == {SubSeq(path, 1, n) : n \in 1..Len(path)}

\* The steps of the preparation that perform a file operation and can fail
\* with an I/O error; "none": every operation succeeds.
FailPoints == {"none", "read_last", "mkdir", "copy_prd", "copy_progress",
               "write_progress", "write_last"}

\* Mutant: the progress log is written anew on every call
init_progress_file_Always(fl, now, fail) ==
    IF fail = "write_progress"
    THEN [ok |-> FALSE, files |-> fl]
    ELSE [ok |-> TRUE, files |-> WriteFile(fl, ProgressPath, FreshHeader(now))]

\* init_progress_file: the file is written only when it does not exist
init_progress_file(fl, now, fail) ==
    IF ~Exists(fl, ProgressPath)
    THEN IF fail = "write_progress"
         THEN [ok |-> FALSE, files |-> fl]
         ELSE [ok |-> TRUE, files |-> WriteFile(fl, ProgressPath, FreshHeader(now))]
    ELSE [ok |-> TRUE, files |-> fl]

\* Mutant: the "ralph/" prefix of the recorded branch is kept
ArchiveDir_NoStrip(last_branch, day) ==
    <<"archive">> \o Components(FolderString(day, last_branch), "")

\* archive_dir of handle_archive for a recorded branch (already trimmed)
ArchiveDir(last_branch, day) ==
    <<"archive">> \o
    Components(FolderString(day, StripPrefixOr(last_branch, RalphPrefix)), "")

\* Mutant: an empty record counts as a branch of its own
BranchChanged_NoEmptyTest(recorded, current_branch) ==
    Trim(recorded) # current_branch

\* The branch change test of handle_archive on the content of .last-branch
BranchChanged(recorded, current_branch) ==
    LET last_branch == Trim(recorded)
    IN  last_branch # <<>> /\ last_branch # current_branch

\* Mutant: prd.json and progress.txt are copied without the test that they
\* exist, so that a missing one is an I/O error
ArchivePreviousRun_CopyUnchecked(fl, ds, last_branch, day, now, fail) ==
    LET archive_dir == ArchiveDir(last_branch, day)
        ds1 == ds \cup Ancestors(archive_dir)
        fl1 == WriteFile(fl, archive_dir \o PrdJsonPath, ContentAt(fl, PrdJsonPath))
        fl2 == WriteFile(fl1, archive_dir \o ProgressPath, ContentAt(fl1, ProgressPath))
        ip == init_progress_file(fl2, now, fail)
    IN  IF fail = "mkdir" THEN [ok |-> FALSE, files |-> fl, dirs |-> ds]
        ELSE IF fail = "copy_prd" \/ ~Exists(fl, PrdJsonPath)
             THEN [ok |-> FALSE, files |-> fl, dirs |-> ds1]
        ELSE IF fail = "copy_progress" \/ ~Exists(fl1, ProgressPath)
             THEN [ok |-> FALSE, files |-> fl1, dirs |-> ds1]
        ELSE [ok |-> ip.ok, files |-> ip.files, dirs |-> ds1]

\* The archival block of handle_archive (lines 234-260), entered when the
\* branch changed: the outcome is [ok, files, dirs].
ArchivePreviousRun(fl, ds, last_branch, day, now, fail) ==
    LET archive_dir == ArchiveDir(last_branch, day)
        ds1 == ds \cup Ancestors(archive_dir)
        fl1 == IF Exists(fl, PrdJsonPath)
               THEN WriteFile(fl, archive_dir \o PrdJsonPath, fl[PrdJsonPath])
               ELSE fl
        fl2 == IF Exists(fl1, ProgressPath)
               THEN WriteFile(fl1, archive_dir \o ProgressPath, fl1[ProgressPath])
               ELSE fl1
        ip == init_progress_file(fl2, now, fail)
    IN  IF fail = "mkdir" THEN [ok |-> FALSE, files |-> fl, dirs |-> ds]
        ELSE IF fail = "copy_prd" /\ Exists(fl, PrdJsonPath)
             THEN [ok |-> FALSE, files |-> fl, dirs |-> ds1]
        ELSE IF fail = "copy_progress" /\ Exists(fl1, ProgressPath)
             THEN [ok |-> FALSE, files |-> fl1, dirs |-> ds1]
        ELSE [ok |-> ip.ok, files |-> ip.files, dirs |-> ds1]

\* Mutant: the current branch is recorded only when a run was archived
handle_archive_RecordOnChange(fl, ds, p, day, now, fail) ==
    LET current_branch == p.branch
        recorded == IF Exists(fl, LastBranchPath) THEN fl[LastBranchPath].text ELSE <<>>
        changed == Exists(fl, LastBranchPath) /\ BranchChanged(recorded, current_branch)
        arch == IF changed
                THEN ArchivePreviousRun(fl, ds, Trim(recorded), day, now, fail)
                ELSE [ok |-> TRUE, files |-> fl, dirs |-> ds]
    IN  IF Exists(fl, LastBranchPath) /\ fail = "read_last"
        THEN [ok |-> FALSE, files |-> fl, dirs |-> ds]
        ELSE IF ~arch.ok \/ ~changed THEN arch
        ELSE IF fail = "write_last" THEN [ok |-> FALSE, files |-> arch.files, dirs |-> arch.dirs]
        ELSE [ok |-> TRUE,
              files |-> WriteFile(arch.files, LastBranchPath, BranchContent(current_branch)),
              dirs |-> arch.dirs]

\* Mutant: the current branch is recorded before the previous run is archived
handle_archive_RecordFirst(fl, ds, p, day, now, fail) ==
    LET current_branch == p.branch
        recorded == IF Exists(fl, LastBranchPath) THEN fl[LastBranchPath].text ELSE <<>>
        fl0 == WriteFile(fl, LastBranchPath, BranchContent(current_branch))
        arch == IF Exists(fl, LastBranchPath) /\ BranchChanged(recorded, current_branch)
                THEN ArchivePreviousRun(fl0, ds, Trim(recorded), day, now, fail)
                ELSE [ok |-> TRUE, files |-> fl0, dirs |-> ds]
    IN  IF Exists(fl, LastBranchPath) /\ fail = "read_last"
        THEN [ok |-> FALSE, files |-> fl, dirs |-> ds]
        ELSE IF fail = "write_last" THEN [ok |-> FALSE, files |-> fl, dirs |-> ds]
        ELSE arch

\* handle_archive: the outcome is [ok, files, dirs]
handle_archive(fl, ds, p, day, now, fail) ==
    LET current_branch == p.branch
        recorded == IF Exists(fl, LastBranchPath) THEN fl[LastBranchPath].text ELSE <<>>
        arch == IF Exists(fl, LastBranchPath) /\ BranchChanged(recorded, current_branch)
                THEN ArchivePreviousRun(fl, ds, Trim(recorded), day, now, fail)
                ELSE [ok |-> TRUE, files |-> fl, dirs |-> ds]
    IN  IF Exists(fl, LastBranchPath) /\ fail = "read_last"
        THEN [ok |-> FALSE, files |-> fl, dirs |-> ds]
        ELSE IF ~arch.ok THEN arch
        ELSE IF fail = "write_last" THEN [ok |-> FALSE, files |-> arch.files, dirs |-> arch.dirs]
        ELSE [ok |-> TRUE,
              files |-> WriteFile(arch.files, LastBranchPath, BranchContent(current_branch)),
              dirs |-> arch.dirs]

----------------------------------------------------------------------------
(* Tool resolution (src/src/agent.rs, determine_tool) *)

AgentOrder == <<"amp", "claude", "codebuddy">>

\* is_command_available: launching "<cmd> --version" did not fail
is_command_available(inst, cmd) == cmd \in inst

\* Mutant: the agents are tried in the opposite order
detect_agents_Reversed(inst) ==
    SelectSeq(<<"codebuddy", "claude", "amp">>, LAMBDA a : is_command_available(inst, a))

\* detect_agents: the known agents that are available, in the fixed order
detect_agents(inst) ==
    SelectSeq(AgentOrder, LAMBDA a : is_command_available(inst, a))

\* The agents detect_agents probes: all of them, found or not
Range(q) == {q[i] : i \in DOMAIN q}

\* Mutant: when no agent is detected the first known agent is taken anyway
FirstDetected_Fallback(inst, probedBefore) ==
    LET detected == detect_agents(inst)
    IN  [ok |-> TRUE,
         cmd |-> IF detected # <<>> THEN Head(detected) ELSE Head(AgentOrder),
         probed |-> probedBefore \cup Range(AgentOrder)]

FirstDetected(inst, probedBefore) ==
    LET detected == detect_agents(inst)
    IN  IF detected # <<>>
        THEN [ok |-> TRUE, cmd |-> Head(detected),
              probed |-> probedBefore \cup Range(AgentOrder)]
        ELSE [ok |-> FALSE, cmd |-> None,
              probed |-> probedBefore \cup Range(AgentOrder)]

\* Mutant: a configured default that is available wins over the requested tool
determine_tool_DefaultWins(tool, cfg, inst) ==
    IF cfg.default_tool # None
    THEN IF is_command_available(inst, cfg.default_tool)
         THEN [ok |-> TRUE, cmd |-> cfg.default_tool, probed |-> {cfg.default_tool}]
         ELSE IF tool = "auto" THEN FirstDetected(inst, {cfg.default_tool})
         ELSE [ok |-> TRUE, cmd |-> tool, probed |-> {cfg.default_tool}]
    ELSE IF tool = "auto" THEN FirstDetected(inst, {})
    ELSE [ok |-> TRUE, cmd |-> tool, probed |-> {}]

\* determine_tool: [ok, cmd], and the commands whose presence was probed
determine_tool(tool, cfg, inst) ==
    IF tool = "auto"
    THEN IF cfg.default_tool # None
         THEN IF is_command_available(inst, cfg.default_tool)
              THEN [ok |-> TRUE, cmd |-> cfg.default_tool, probed |-> {cfg.default_tool}]
              ELSE FirstDetected(inst, {cfg.default_tool})
         ELSE FirstDetected(inst, {})
    ELSE [ok |-> TRUE, cmd |-> tool, probed |-> {}]

----------------------------------------------------------------------------
(* Inputs *)

BrA == RalphPrefix \o <<"a">>          \* "ralph/a"
BrB == RalphPrefix \o <<"b">>          \* "ralph/b"
BrPad == BrA \o <<" ">>                \* "ralph/a " (a JSON string may end in a blank)
BrEmpty == <<>>                        \* ""
BrFeat == <<"f", "e", "a", "t", "/", "a">>   \* "feat/a"

Branches == {BrA, BrB, BrPad}
\* What .last-branch can hold before the first run: nothing, a branch, or a
\* branch followed by a line break (as a shell's echo leaves it).
RecordedBranches == {BrEmpty, BrA, BrA \o <<"\n">>}

\* The passes flags of the user stories of a task list: none, one pending,
\* one passing
StoryLists == {<<>>, <<FALSE>>, <<TRUE>>}

ToolArgs == {"auto", "claude", "mytool"}
MaxIterArgs == {NoneU32} \cup {Some(n) : n \in 0..MaxIterBound}
LineKinds == {"plain", "marker"}

NoPrev == [ok |-> FALSE, branch |-> <<>>, failedChange |-> FALSE]

\* The error run_run returns: its kind and the command its message names
NoError == [kind |-> "none", cmd |-> None]
\* "Failed to load PRD from ..."
LoadError == [kind |-> "load", cmd |-> None]
\* "No AI agent CLI detected. Please install Amp, Claude Code, or CodeBuddy."
NoAgentError == [kind |-> "no_agent", cmd |-> None]
\* RalphError::Io of a file operation of the preparation
IoError == [kind |-> "io", cmd |-> None]
\* Mutant: the message does not name the command
SpawnError_Unnamed(cmd) == [kind |-> "spawn", cmd |-> None]

\* format!("Failed to spawn {}: {}", tool_cmd, e)
SpawnError(cmd) == [kind |-> "spawn", cmd |-> cmd]
\* "Failed to write to stdin: ..."
StdinError == [kind |-> "stdin", cmd |-> None]

NewHist(fl, ds, prev) ==
    [files0 |-> fl, dirs0 |-> ds, prev |-> prev,
     reconciled |-> FALSE, archived |-> FALSE,
     markerIter |-> 0, childFailed |-> FALSE, inputUnread |-> FALSE,
     intrWhileChild |-> FALSE, intrSpawned |-> -1, killSent |-> FALSE,
     overlap |-> FALSE, headStopped |-> FALSE, probed |-> {}, fail |-> "none",
     tool |-> "none", installed0 |-> {}, err |-> NoError, failIter |-> 0,
     flagWrites |-> 0, interrupts |-> 0, seenLower |-> FALSE]

\* The state of the control thread and of the child slot before run_run
IdleLocals(prev) ==
    /\ pc = "idle"
    /\ prd = NoFile
    /\ tool_cmd = None
    /\ max_iter = 0
    /\ current_iteration = 0
    /\ running = TRUE
    /\ listener = "none"
    /\ result = "none"
    /\ printed = {}
    /\ summary = NoSummary
    /\ child = "none"
    /\ exitOk = TRUE
    /\ stdinPipe = "none"
    /\ outBuf = <<>>
    /\ errBuf = <<>>
    /\ outOpen = FALSE
    /\ errOpen = FALSE
    /\ linesLeft = 0
    /\ found_complete = FALSE
    /\ spawned = 0
    /\ hist = NewHist(files, dirs, prev)

\* A run directory: the task list under its name, and optionally a recorded
\* branch and a progress log left by earlier work.
RunDirectory(name, branch, stories, recorded, progress) ==
    LET f0 == (<<name>> :> PrdContent(branch, stories))
        f1 == IF recorded = NoFile THEN f0 ELSE WriteFile(f0, LastBranchPath, recorded)
    IN  IF progress = NoFile THEN f1 ELSE WriteFile(f1, ProgressPath, progress)

\* One run of the engine over a directory in which the branch changed
Init ==
    /\ prdName = "prd.json"
    /\ \E recorded \in {NoFile, BranchContent(BrA)},
          progress \in {NoFile, ProgressContent(0, 1)} :
            files = RunDirectory(prdName, BrB, <<FALSE>>, recorded, progress)
    /\ dirs = {}
    /\ today = 0
    /\ clock = 1
    /\ installed \in {{}, {"claude"}}
    /\ config \in [default_tool : {None},
                 max_iterations : {Some(n) : n \in 1..MaxIterBound}]
    /\ IdleLocals(NoPrev)

----------------------------------------------------------------------------
(* run_run up to the iteration loop (lines 99-172) *)

\* Mutant: a task list without stories is taken for a finished one, and only it
AllComplete_OnEmpty(p) == total_stories(p) = 0

\* Line 147: no story is pending
AllComplete(p) == pending_stories(p) = 0

\* max_iterations.or(config.max_iterations).unwrap_or(10)
MaxIterOf(arg, cfg) ==
    IF arg.some THEN arg.v
    ELSE IF cfg.max_iterations.some THEN cfg.max_iterations.v
    ELSE DefaultMaxIter

\* Mutant: the error is dropped and the run returns success
ReturnErr_Swallowed ==
    /\ pc' = "done"
    /\ result' = "Ok"

ReturnErr ==
    /\ pc' = "done"
    /\ result' = "Err"

\* Config::load and the legacy-file migration are taken to succeed and the
\* run directory to exist: the run reaches the load of the task list.
Start(toolArg, maxArg, fail) ==
    /\ pc = "idle"
    /\ LET loaded == from_file(files, <<prdName>>)
           resolved == determine_tool(toolArg, config, installed)
           h0 == [hist EXCEPT !.files0 = files, !.dirs0 = dirs,
                              !.probed = IF loaded.ok THEN resolved.probed ELSE {},
                              !.tool = toolArg, !.installed0 = installed]
       IN
       /\ max_iter' = MaxIterOf(maxArg, config)
       /\ IF ~loaded.ok
          THEN /\ ReturnErr
               /\ hist' = [h0 EXCEPT !.err = LoadError]
               /\ UNCHANGED <<prd, tool_cmd, printed, files, dirs, running, listener,
                              current_iteration>>
          ELSE IF ~resolved.ok
          THEN /\ ReturnErr
               /\ prd' = loaded.prd
               /\ hist' = [h0 EXCEPT !.err = NoAgentError]
               /\ UNCHANGED <<tool_cmd, printed, files, dirs, running, listener,
                              current_iteration>>
          ELSE IF AllComplete(loaded.prd)
          THEN /\ pc' = "done"
               /\ result' = "Ok"
               /\ prd' = loaded.prd
               /\ tool_cmd' = resolved.cmd
               /\ printed' = printed \cup {"AllComplete"}
               /\ hist' = h0
               /\ UNCHANGED <<files, dirs, running, listener, current_iteration>>
          ELSE LET ha == handle_archive(files, dirs, loaded.prd, today, clock, fail)
                   ip == init_progress_file(ha.files, clock, fail)
                   changed == /\ Exists(files, LastBranchPath)
                              /\ BranchChanged(files[LastBranchPath].text,
                                               loaded.prd.branch)
               IN
               /\ prd' = loaded.prd
               /\ tool_cmd' = resolved.cmd
               /\ dirs' = ha.dirs
               /\ printed' = IF changed /\ fail # "read_last"
                             THEN printed \cup {"Archiving"} ELSE printed
               /\ IF ~ha.ok
                  THEN /\ ReturnErr
                       /\ files' = ha.files
                       /\ hist' = [h0 EXCEPT !.fail = fail, !.err = IoError]
                       /\ UNCHANGED <<running, listener, current_iteration>>
                  ELSE IF ~ip.ok
                  THEN /\ ReturnErr
                       /\ files' = ip.files
                       /\ hist' = [h0 EXCEPT !.reconciled = TRUE, !.archived = changed,
                                            !.fail = fail, !.err = IoError]
                       /\ UNCHANGED <<running, listener, current_iteration>>
                  ELSE /\ files' = ip.files
                       /\ hist' = [h0 EXCEPT !.reconciled = TRUE, !.archived = changed]
                       /\ running' = TRUE
                       /\ listener' = "armed"
                       /\ current_iteration' = 1
                       /\ pc' = "loop_head"
                       /\ result' = "none"
    /\ UNCHANGED <<summary, childVars, spawned, today, clock, installed, config, prdName>>

----------------------------------------------------------------------------
(* The iteration loop and run_agent_iteration *)

Min(a, b) == IF a <= b THEN a ELSE b

\* Mutants of the while condition: an off-by-one bound; a forgotten flag
LoopCondition_Strict == current_iteration < max_iter /\ running
LoopCondition_NoFlag == current_iteration <= max_iter

\* Mutant: one iteration more than the budget
LoopCondition_OffByOne == current_iteration <= max_iter + 1 /\ running

\* The while condition of line 174
LoopCondition == current_iteration <= max_iter /\ running

\* The loop head is evaluated for the first time in this run
FirstHead == spawned = 0 /\ current_iteration = 1

\* Line 174, and for a true condition lines 175-374: the child is spawned
\* with its three pipes; a command that cannot be launched is a spawn error.
IterationStart ==
    /\ pc = "loop_head"
    /\ IF ~LoopCondition
       THEN /\ pc' = "summary"
            /\ hist' = [hist EXCEPT !.headStopped = @ \/ (FirstHead /\ ~running)]
            /\ UNCHANGED <<result, childVars, spawned>>
       ELSE IF ~is_command_available(installed, tool_cmd)
       THEN /\ ReturnErr
            /\ hist' = [hist EXCEPT !.headStopped = @ \/ (FirstHead /\ ~running),
                                    !.err = SpawnError(tool_cmd)]
            /\ UNCHANGED <<childVars, spawned>>
       ELSE /\ pc' = "write_stdin"
            /\ child' = "running"
            /\ exitOk' = TRUE
            /\ stdinPipe' = "open"
            /\ outBuf' = <<>>
            /\ errBuf' = <<>>
            /\ outOpen' = TRUE
            /\ errOpen' = TRUE
            /\ linesLeft' = MaxLines
            /\ found_complete' = FALSE
            /\ spawned' = spawned + 1
            /\ hist' = [hist EXCEPT !.overlap = @ \/ child \in {"running", "exited"},
                                    !.headStopped = @ \/ (FirstHead /\ ~running)]
            /\ UNCHANGED result
    /\ UNCHANGED <<envVars, prd, tool_cmd, max_iter, current_iteration, running,
                   listener, printed, summary>>

\* Mutant: the prompt is written but the pipe is kept open
WritePrompt_LeftOpen ==
    /\ pc = "write_stdin"
    /\ IF stdinPipe = "open"
       THEN /\ pc' = "stream"
            /\ UNCHANGED <<result, hist, stdinPipe>>
       ELSE /\ ReturnErr
            /\ hist' = [hist EXCEPT !.err = StdinError]
            /\ UNCHANGED stdinPipe
    /\ UNCHANGED <<envVars, prd, tool_cmd, max_iter, current_iteration, running,
                   listener, printed, summary, child, exitOk, outBuf, errBuf,
                   outOpen, errOpen, linesLeft, found_complete, spawned>>

\* Lines 376-384: the whole prompt is written to the child's stdin and the
\* pipe is closed; writing to a pipe without a reader is an error.
WritePrompt ==
    /\ pc = "write_stdin"
    /\ IF stdinPipe = "open"
       THEN /\ stdinPipe' = "closed"
            /\ pc' = "stream"
            /\ UNCHANGED <<result, hist>>
       ELSE /\ ReturnErr
            /\ hist' = [hist EXCEPT !.err = StdinError]
            /\ UNCHANGED stdinPipe
    /\ UNCHANGED <<envVars, prd, tool_cmd, max_iter, current_iteration, running,
                   listener, printed, summary, child, exitOk, outBuf, errBuf,
                   outOpen, errOpen, linesLeft, found_complete, spawned>>

\* child.kill().await: SIGKILL, then the child is waited for
KillChild ==
    /\ child' = "reaped"
    /\ exitOk' = IF child = "running" THEN FALSE ELSE exitOk
    /\ outOpen' = FALSE
    /\ errOpen' = FALSE
    /\ hist' = [hist EXCEPT !.killSent = TRUE]

\* Lines 396-400: the flag is read at the top of the streaming loop
StreamHead ==
    /\ pc = "stream"
    /\ IF ~running
       THEN /\ KillChild
            /\ pc' = "wait"
       ELSE /\ pc' = "select"
            /\ UNCHANGED <<child, exitOk, outOpen, errOpen, hist>>
    /\ UNCHANGED <<envVars, prd, tool_cmd, max_iter, current_iteration, running,
                   listener, result, printed, summary, stdinPipe, outBuf, errBuf,
                   linesLeft, found_complete, spawned>>

\* The text of the lines a child writes, as a sequence of pieces: the piece
\* "<promise>COMPLETE</promise>" is the completion marker, the piece
\* "<promise>complete</promise>" differs from it in case only.
MarkerLiteral == "<promise>COMPLETE</promise>"
LineText(line) ==
    CASE line = "marker" -> <<MarkerLiteral>>
      [] line = "embedded" -> <<"done: ", MarkerLiteral, " bye">>
      [] line = "lowercase" -> <<"<promise>complete</promise>">>
      [] OTHER -> <<"working">>

\* Mutant: the marker is looked for without regard to case
ContainsMarker_IgnoreCase(line) ==
    \E i \in DOMAIN LineText(line) :
        LineText(line)[i] \in {MarkerLiteral, "<promise>complete</promise>"}

\* line.contains("<promise>COMPLETE</promise>")
ContainsMarker(line) ==
    \E i \in DOMAIN LineText(line) : LineText(line)[i] = MarkerLiteral

\* Lines 403-416: the stdout branch of select! is ready with a line or with
\* the end of the stream
SelectStdout ==
    /\ pc = "select"
    /\ outBuf # <<>> \/ ~outOpen
    /\ IF outBuf # <<>>
       THEN /\ found_complete' = (found_complete \/ ContainsMarker(Head(outBuf)))
            /\ outBuf' = Tail(outBuf)
            /\ pc' = "stream"
            /\ hist' = [hist EXCEPT !.seenLower =
                            @ \/ (found_complete /\ Head(outBuf) = "lowercase")]
       ELSE /\ pc' = "wait"
            /\ UNCHANGED <<found_complete, outBuf, hist>>
    /\ UNCHANGED <<envVars, prd, tool_cmd, max_iter, current_iteration, running,
                   listener, result, printed, summary, child, exitOk, stdinPipe,
                   errBuf, outOpen, errOpen, linesLeft, spawned>>

\* Lines 417-426: the stderr branch of select!
SelectStderr ==
    /\ pc = "select"
    /\ errBuf # <<>> \/ ~errOpen
    /\ IF errBuf # <<>>
       THEN /\ errBuf' = Tail(errBuf)
            /\ pc' = "stream"
       ELSE /\ pc' = "wait"
            /\ UNCHANGED errBuf
    /\ UNCHANGED <<envVars, prd, tool_cmd, max_iter, current_iteration, running,
                   listener, result, printed, summary, child, exitOk, stdinPipe,
                   outBuf, outOpen, errOpen, linesLeft, found_complete, histVars>>

\* Mutant: the iteration returns without waiting for the child to exit
WaitChild_NotAwaited ==
    /\ pc = "wait"
    /\ UNCHANGED <<child, stdinPipe, outBuf, errBuf, linesLeft>>
    /\ found_complete' = FALSE
    /\ IF found_complete
       THEN /\ printed' = printed \cup {"Completed"}
            /\ pc' = "summary"
            /\ UNCHANGED current_iteration
       ELSE /\ UNCHANGED printed
            /\ current_iteration' = current_iteration + 1
            /\ pc' = "loop_head"
    /\ UNCHANGED <<envVars, prd, tool_cmd, max_iter, running, listener, result,
                   summary, exitOk, outOpen, errOpen, histVars>>

\* Lines 431-445 and 186-192: the child is waited for, a failure that is not
\* a cancellation is warned about, and the loop acts on the returned flag.
WaitChild ==
    /\ pc = "wait"
    /\ child \in {"exited", "reaped"}
    /\ child' = "reaped"
    /\ stdinPipe' = "none"
    /\ outBuf' = <<>>
    /\ errBuf' = <<>>
    /\ linesLeft' = 0
    /\ found_complete' = FALSE
    /\ IF found_complete
       THEN /\ printed' = (IF ~exitOk /\ running THEN printed \cup {"Warning"} ELSE printed)
                              \cup {"Completed"}
            /\ pc' = "summary"
            /\ UNCHANGED current_iteration
       ELSE /\ printed' = IF ~exitOk /\ running THEN printed \cup {"Warning"} ELSE printed
            /\ current_iteration' = current_iteration + 1
            /\ pc' = "loop_head"
    /\ UNCHANGED <<envVars, prd, tool_cmd, max_iter, running, listener, result,
                   summary, exitOk, outOpen, errOpen, histVars>>

\* Mutant: the summary shows the counts loaded before the run
Summary_NoReload ==
    /\ pc = "summary"
    /\ summary' = [iterations |-> Min(current_iteration - 1, max_iter),
                   max |-> max_iter,
                   completed |-> completed_stories(prd),
                   total |-> total_stories(prd)]
    /\ printed' = printed \cup
                     (IF ~running THEN {"Interrupted"}
                      ELSE IF current_iteration > max_iter THEN {"Exhausted"}
                      ELSE {})
    /\ result' = "Ok"
    /\ pc' = "done"
    /\ UNCHANGED <<envVars, prd, tool_cmd, max_iter, current_iteration, running,
                   listener, childVars, histVars>>

\* Lines 195-220
Summary ==
    /\ pc = "summary"
    /\ LET reload == from_file(files, <<prdName>>)
           final_prd == IF reload.ok THEN reload.prd ELSE prd
       IN  summary' = [iterations |-> Min(current_iteration - 1, max_iter),
                       max |-> max_iter,
                       completed |-> completed_stories(final_prd),
                       total |-> total_stories(final_prd)]
    /\ printed' = printed \cup
                     (IF ~running THEN {"Interrupted"}
                      ELSE IF current_iteration > max_iter THEN {"Exhausted"}
                      ELSE {})
    /\ result' = "Ok"
    /\ pc' = "done"
    /\ UNCHANGED <<envVars, prd, tool_cmd, max_iter, current_iteration, running,
                   listener, childVars, histVars>>

\* Mutant: the listener waits for Ctrl+C in a loop and stores on each
Interrupt_Rearmed ==
    /\ listener = "armed"
    /\ pc \notin {"idle", "done"}
    /\ hist.flagWrites < MaxInterrupts
    /\ running' = FALSE
    /\ listener' = "armed"
    /\ printed' = printed \cup {"ReceivedInterrupt"}
    /\ hist' = [hist EXCEPT !.intrWhileChild = @ \/ child = "running",
                            !.intrSpawned = spawned,
                            !.flagWrites = @ + 1, !.interrupts = @ + 1]
    /\ UNCHANGED <<envVars, pc, prd, tool_cmd, max_iter, current_iteration, result,
                   summary, childVars, spawned>>

\* Lines 163-169: the listener task stores false on the first Ctrl+C
Interrupt ==
    /\ listener = "armed"
    /\ pc \notin {"idle", "done"}
    /\ running' = FALSE
    /\ listener' = "fired"
    /\ printed' = printed \cup {"ReceivedInterrupt"}
    /\ hist' = [hist EXCEPT !.intrWhileChild = @ \/ child = "running",
                            !.intrSpawned = spawned,
                            !.flagWrites = @ + 1, !.interrupts = @ + 1]
    /\ UNCHANGED <<envVars, pc, prd, tool_cmd, max_iter, current_iteration, result,
                   summary, childVars, spawned>>

\* A further Ctrl+C: the listener task has ended after its first store
\* (lines 163-169 hold no loop) and the signal stays caught by the runtime,
\* so nothing of the program runs.
InterruptAgain ==
    /\ listener = "fired"
    /\ pc \notin {"idle", "done"}
    /\ hist.interrupts < MaxInterrupts
    /\ hist' = [hist EXCEPT !.interrupts = @ + 1]
    /\ UNCHANGED <<envVars, engineVars, childVars, spawned>>

----------------------------------------------------------------------------
(* The agent child *)

ChildUnchanged ==
    UNCHANGED <<today, clock, installed, config, prdName, dirs, engineVars, spawned>>

\* The child writes one line to its standard output
ChildWriteOut(kind) ==
    /\ child = "running"
    /\ outOpen
    /\ linesLeft > 0
    /\ outBuf' = Append(outBuf, kind)
    /\ linesLeft' = linesLeft - 1
    /\ hist' = IF ContainsMarker(kind) /\ hist.markerIter = 0
               THEN [hist EXCEPT !.markerIter = current_iteration] ELSE hist
    /\ ChildUnchanged
    /\ UNCHANGED <<files, child, exitOk, stdinPipe, errBuf, outOpen, errOpen, found_complete>>

\* The child writes one line to its standard error
ChildWriteErr(kind) ==
    /\ child = "running"
    /\ errOpen
    /\ linesLeft > 0
    /\ errBuf' = Append(errBuf, kind)
    /\ linesLeft' = linesLeft - 1
    /\ ChildUnchanged
    /\ UNCHANGED <<files, child, exitOk, stdinPipe, outBuf, outOpen, errOpen,
                   found_complete, hist>>

\* The child closes one of its output streams and goes on
ChildCloseOut ==
    /\ child = "running"
    /\ outOpen
    /\ outOpen' = FALSE
    /\ ChildUnchanged
    /\ UNCHANGED <<files, child, exitOk, stdinPipe, outBuf, errBuf, errOpen, linesLeft,
                   found_complete, hist>>

ChildCloseErr ==
    /\ child = "running"
    /\ errOpen
    /\ errOpen' = FALSE
    /\ ChildUnchanged
    /\ UNCHANGED <<files, child, exitOk, stdinPipe, outBuf, errBuf, outOpen, linesLeft,
                   found_complete, hist>>

\* The child exits by itself: all its pipe ends are closed
ChildExit(ok) ==
    /\ child = "running"
    /\ child' = "exited"
    /\ exitOk' = ok
    /\ outOpen' = FALSE
    /\ errOpen' = FALSE
    /\ stdinPipe' = IF stdinPipe = "open" THEN "broken" ELSE stdinPipe
    /\ hist' = [hist EXCEPT !.childFailed = @ \/ ~ok,
                            !.inputUnread = @ \/ stdinPipe = "open",
                            !.failIter = IF ~ok /\ @ = 0 THEN current_iteration ELSE @]
    /\ ChildUnchanged
    /\ UNCHANGED <<files, outBuf, errBuf, linesLeft, found_complete>>

\* The first pending story of a story list is marked as passing
RECURSIVE PassFirstPending(_)
PassFirstPending(stories) ==
    IF stories = <<>> THEN <<>>
    ELSE IF ~Head(stories) THEN <<TRUE>> \o Tail(stories)
    ELSE <<Head(stories)>> \o PassFirstPending(Tail(stories))

\* The agent does one story: it marks it in the task list and appends to the
\* progress log (the files are the agent's to write in the run directory).
AgentWork ==
    /\ child = "running"
    /\ LET path == <<prdName>>
           cur == from_file(files, path)
       IN  /\ cur.ok
           /\ pending_stories(cur.prd) > 0
           /\ Exists(files, ProgressPath)
           /\ files' = [files EXCEPT
                  ![path] = PrdContent(cur.prd.branch, PassFirstPending(cur.prd.stories)),
                  ![ProgressPath] = ProgressContent(@.started, @.log + 1)]
    /\ ChildUnchanged
    /\ UNCHANGED <<childVars, hist>>

\* Malformed content of the task-list file
Garbage == [kind |-> "garbage"]

\* The agent leaves the task list unreadable (it is the agent that edits the
\* file during a run)
AgentBreaksPrd ==
    /\ child = "running"
    /\ from_file(files, <<prdName>>).ok
    /\ files' = [files EXCEPT ![<<prdName>>] = Garbage]
    /\ ChildUnchanged
    /\ UNCHANGED <<childVars, hist>>

----------------------------------------------------------------------------
(* Specifications *)

\* One run of the engine, every file operation succeeding
Next ==
    \/ \E t \in ToolArgs, m \in MaxIterArgs : Start(t, m, "none")
    \/ IterationStart
    \/ WritePrompt
    \/ StreamHead
    \/ SelectStdout
    \/ SelectStderr
    \/ WaitChild
    \/ Summary
    \/ Interrupt
    \/ \E k \in LineKinds : ChildWriteOut(k)
    \/ \E k \in LineKinds : ChildWriteErr(k)
    \/ ChildCloseOut
    \/ ChildCloseErr
    \/ \E ok \in BOOLEAN : ChildExit(ok)
    \/ AgentWork

Spec == Init /\ [][Next]_vars

\* ---- Several runs in a row over one run directory

\* Any run directory the engine can be started in, with a child that writes
\* no output: recorded branch absent, empty, equal to or different from the
\* branch of the task list; the task list under the name prd.json or not.
InitArchive ==
    /\ prdName \in {"prd.json", "tasks.json"}
    /\ \E branch \in Branches, stories \in StoryLists,
          recorded \in {NoFile} \cup {BranchContent(b) : b \in RecordedBranches},
          progress \in {NoFile, ProgressContent(0, 1)} :
            files = RunDirectory(prdName, branch, stories, recorded, progress)
    /\ dirs = {}
    /\ today = 0
    /\ clock = 1
    /\ installed \in {{}, {"claude"}}
    /\ config = [default_tool |-> None, max_iterations |-> Some(1)]
    /\ IdleLocals(NoPrev)

\* The operator invokes the command again, later (possibly on a later day),
\* at most cap runs in all
NextRunWithin(day, cap) ==
    /\ pc = "done"
    /\ clock < cap
    /\ clock' = clock + 1
    /\ today' = day
    /\ UNCHANGED <<files, dirs, installed, config, prdName>>
    /\ pc' = "idle"
    /\ prd' = NoFile
    /\ tool_cmd' = None
    /\ max_iter' = 0
    /\ current_iteration' = 0
    /\ running' = TRUE
    /\ listener' = "none"
    /\ result' = "none"
    /\ printed' = {}
    /\ summary' = NoSummary
    /\ child' = "none"
    /\ exitOk' = TRUE
    /\ stdinPipe' = "none"
    /\ outBuf' = <<>>
    /\ errBuf' = <<>>
    /\ outOpen' = FALSE
    /\ errOpen' = FALSE
    /\ linesLeft' = 0
    /\ found_complete' = FALSE
    /\ spawned' = 0
    /\ hist' = NewHist(files, dirs,
                       IF prd = NoFile THEN NoPrev
                       ELSE [ok |-> hist.reconciled /\ result = "Ok",
                             branch |-> prd.branch,
                             failedChange |->
                                /\ hist.fail # "none" /\ ~hist.reconciled
                                /\ Exists(hist.files0, LastBranchPath)
                                /\ BranchChanged(hist.files0[LastBranchPath].text,
                                                 prd.branch)])

NextRun(day) == NextRunWithin(day, MaxRuns)

\* Between two runs the operator replaces the task list (another branch,
\* other stories)
EditPrd(branch, stories) ==
    /\ pc = "idle"
    /\ clock > 1
    /\ files[<<prdName>>] # PrdContent(branch, stories)
    /\ files' = [files EXCEPT ![<<prdName>>] = PrdContent(branch, stories)]
    /\ hist' = [hist EXCEPT !.files0 = files']
    /\ UNCHANGED <<dirs, today, clock, installed, config, prdName, engineVars,
                   childVars, spawned>>

NextArchive ==
    \/ \E t \in {"auto", "mytool"}, f \in FailPoints : Start(t, NoneU32, f)
    \/ IterationStart
    \/ WritePrompt
    \/ StreamHead
    \/ SelectStdout
    \/ SelectStderr
    \/ WaitChild
    \/ Summary
    \/ ChildExit(TRUE)
    \/ AgentWork
    \/ AgentBreaksPrd
    \/ \E d \in today..Min(today + 1, MaxDay) : NextRun(d)
    \/ \E b \in Branches, st \in StoryLists : EditPrd(b, st)

SpecArchive == InitArchive /\ [][NextArchive]_vars

\* ---- The branch switched back and forth over several runs, no I/O failure

\* Branches of the task lists and of .last-branch: two with the prefix
\* "ralph/", one with another prefix
SwitchBranches == {BrA, BrB, BrFeat}

InitSwitch ==
    /\ prdName = "prd.json"
    /\ \E branch \in SwitchBranches,
          recorded \in {NoFile} \cup {BranchContent(b) : b \in SwitchBranches},
          progress \in {NoFile, ProgressContent(0, 1)} :
            files = RunDirectory(prdName, branch, <<FALSE>>, recorded, progress)
    /\ dirs = {}
    /\ today = 0
    /\ clock = 1
    /\ installed = {"claude"}
    /\ config = [default_tool |-> None, max_iterations |-> Some(1)]
    /\ IdleLocals(NoPrev)

NextSwitch ==
    \/ Start("auto", NoneU32, "none")
    \/ IterationStart
    \/ WritePrompt
    \/ StreamHead
    \/ SelectStdout
    \/ SelectStderr
    \/ WaitChild
    \/ Summary
    \/ ChildExit(TRUE)
    \/ AgentWork
    \/ \E d \in today..Min(today + 1, MaxDay) : NextRunWithin(d, MaxSwitchRuns)
    \/ \E b \in SwitchBranches, st \in StoryLists : EditPrd(b, st)

SpecSwitch == InitSwitch /\ [][NextSwitch]_vars

\* ---- Tool resolution and spawn over every PATH and configuration

\* The commands a PATH can hold and a configuration can name: the three
\* known agents and a custom command
Commands == {"amp", "claude", "codebuddy", "mytool"}

\* One run directory with one pending story; any set of installed commands,
\* any configured default, any budget up to the bound
InitTool ==
    /\ prdName = "prd.json"
    /\ files = RunDirectory(prdName, BrB, <<FALSE>>, NoFile, NoFile)
    /\ dirs = {}
    /\ today = 0
    /\ clock = 1
    /\ installed \in SUBSET Commands
    /\ config \in [default_tool : {None} \cup Commands,
                 max_iterations : {Some(n) : n \in 1..MaxIterBound}]
    /\ IdleLocals(NoPrev)

\* The resolved command is removed from PATH between two iterations
Uninstall ==
    /\ pc = "loop_head"
    /\ spawned > 0
    /\ tool_cmd \in installed
    /\ installed' = installed \ {tool_cmd}
    /\ UNCHANGED <<files, dirs, today, clock, config, prdName, engineVars,
                   childVars, histVars>>

NextTool ==
    \/ \E t \in {"auto"} \cup Commands : Start(t, NoneU32, "none")
    \/ IterationStart
    \/ WritePrompt
    \/ StreamHead
    \/ SelectStdout
    \/ SelectStderr
    \/ WaitChild
    \/ Summary
    \/ ChildExit(TRUE)
    \/ Uninstall

SpecTool == InitTool /\ [][NextTool]_vars

\* ---- One run under Ctrl+C with a child that writes any kind of line

AllLineKinds == {"plain", "marker", "embedded", "lowercase"}

InitStream ==
    /\ prdName = "prd.json"
    /\ files = RunDirectory(prdName, BrB, <<FALSE>>, NoFile, NoFile)
    /\ dirs = {}
    /\ today = 0
    /\ clock = 1
    /\ installed = {"claude"}
    /\ config \in [default_tool : {None},
                 max_iterations : {Some(n) : n \in 1..MaxIterBound}]
    /\ IdleLocals(NoPrev)

\* The steps of the control thread of run_run
Supervisor ==
    \/ IterationStart
    \/ WritePrompt
    \/ StreamHead
    \/ SelectStdout
    \/ SelectStderr
    \/ WaitChild
    \/ Summary

NextStream ==
    \/ Start("claude", NoneU32, "none")
    \/ Supervisor
    \/ Interrupt
    \/ InterruptAgain
    \/ \E k \in AllLineKinds : ChildWriteOut(k)
    \/ \E k \in AllLineKinds : ChildWriteErr(k)
    \/ ChildCloseOut
    \/ ChildCloseErr
    \/ \E ok \in BOOLEAN : ChildExit(ok)

\* The control thread is scheduled whenever it can take a step; the child
\* and the operator are free to do nothing.
SpecStream == InitStream /\ [][NextStream]_vars /\ WF_vars(Supervisor)

\* ---- Pipes with bounded buffers, agents that write all their output

\* Two agent programs: "reader" reads the prompt as soon as it starts and
\* then writes its output, "writer" writes its output before it reads the
\* prompt.  Both write every line they have and exit after the end of their
\* input.
AgentPrograms == {"reader", "writer"}

\* The child is reading its standard input (it drains the pipe to its end)
ChildReadsInput == tool_cmd = "reader" \/ linesLeft = 0

\* The whole prompt fits into the buffer of the stdin pipe
PromptFits == PromptLen <= PipeCap

\* Lines 377-384 with a bounded pipe: write_all returns once the whole prompt
\* is in the pipe or was read by the child
WritePromptBounded ==
    /\ stdinPipe = "open" => (PromptFits \/ ChildReadsInput)
    /\ WritePrompt

\* A write of the child blocks while the buffer of the pipe is full
BoundedWriteOut ==
    /\ Len(outBuf) < PipeCap
    /\ ChildWriteOut("plain")

BoundedWriteErr ==
    /\ Len(errBuf) < PipeCap
    /\ ChildWriteErr("plain")

\* The child closes one output stream and keeps the other
CloseOutKeepErr == errOpen /\ ChildCloseOut
CloseErrKeepOut == outOpen /\ ChildCloseErr

\* The child exits once it has written all its lines and read its input to
\* the end
ChildFinish ==
    /\ linesLeft = 0
    /\ stdinPipe = "closed"
    /\ ChildExit(TRUE)

SupervisorBounded ==
    \/ IterationStart
    \/ WritePromptBounded
    \/ StreamHead
    \/ SelectStdout
    \/ SelectStderr
    \/ WaitChild
    \/ Summary

ChildBounded ==
    \/ BoundedWriteOut
    \/ BoundedWriteErr
    \/ CloseOutKeepErr
    \/ CloseErrKeepOut
    \/ ChildFinish

InitPipe ==
    /\ prdName = "prd.json"
    /\ files = RunDirectory(prdName, BrB, <<FALSE>>, NoFile, NoFile)
    /\ dirs = {}
    /\ today = 0
    /\ clock = 1
    /\ installed = AgentPrograms
    /\ config \in [default_tool : {None},
                 max_iterations : {Some(n) : n \in 1..MaxIterBound}]
    /\ IdleLocals(NoPrev)

NextPipe ==
    \/ \E t \in AgentPrograms : Start(t, NoneU32, "none")
    \/ SupervisorBounded
    \/ ChildBounded
    \/ Interrupt

\* The control thread and the child are both scheduled whenever they can
\* take a step; the operator is free to do nothing.
SpecPipe ==
    InitPipe /\ [][NextPipe]_vars /\ WF_vars(SupervisorBounded) /\ WF_vars(ChildBounded)

----------------------------------------------------------------------------
(* Properties of the iteration loop, checked under Spec *)

Done == pc = "done"
Terminals == {"Completed", "Interrupted", "Exhausted"}

\* The run of a well-behaved agent: no Ctrl+C, every child read its prompt
\* and exited with success, no child wrote the completion marker.
QuietRun ==
    /\ hist.reconciled
    /\ listener = "armed"
    /\ is_command_available(installed, tool_cmd)
    /\ hist.markerIter = 0
    /\ ~hist.childFailed
    /\ ~hist.inputUnread

C2_MarkerAlwaysCompletes ==
    (Done /\ result = "Ok" /\ listener = "armed" /\ ~hist.inputUnread
          /\ ~hist.childFailed /\ hist.markerIter > 0) =>
        /\ spawned = hist.markerIter
        /\ "Completed" \in printed

\* C3 (as claimed): a run that ends on the completion marker seen in
\* iteration i reports i iterations, the number of children spawned (here:
\* no interrupt).
C3_CompletedCountsIteration ==
    (Done /\ listener = "armed" /\ ~hist.childFailed /\ "Completed" \in printed) =>
        /\ summary.iterations = current_iteration
        /\ summary.iterations = spawned

\* C4: if the flag is already "stopped" when the loop head is first
\* evaluated, no child is ever spawned, and the finished run returns Ok,
\* reports 0 iterations and announces Interrupted and nothing else.
C4_StoppedBeforeFirstIteration ==
    hist.headStopped =>
        /\ spawned = 0
        /\ child = "none"
        /\ Done => /\ result = "Ok"
                   /\ summary.iterations = 0
                   /\ printed \cap Terminals = {"Interrupted"}

C4_Witness ==
    Done /\ hist.headStopped /\ max_iter >= 1 /\ "Interrupted" \in printed

\* C5 (as claimed): if the flag was set while the child of iteration i was
\* running, then once that iteration has returned the child has been sent
\* kill, no further child is spawned, and the finished run reports
\* Interrupted.
C5_CancelKillsChild ==
    (hist.intrWhileChild /\ pc \in {"loop_head", "summary", "done"} /\ result # "Err") =>
        /\ hist.killSent
        /\ spawned = hist.intrSpawned
        /\ Done => "Interrupted" \in printed

\* C14 (as claimed): a child that fails without the run being cancelled, in
\* whatever way (non-zero exit, also before it has read its input), does not
\* make the run return an error: when it failed in an iteration i below the
\* budget (and no marker was written) a warning is emitted and iteration
\* i+1 is started.
C14_ChildFailureNotFatal ==
    (Done /\ listener = "armed" /\ hist.markerIter = 0
          /\ hist.failIter > 0 /\ hist.failIter < max_iter) =>
        /\ result = "Ok"
        /\ "Warning" \in printed
        /\ spawned > hist.failIter

\* C17 (as claimed): the multiplexer stops servicing the pipes only when
\* both have ended or cancellation was observed: when it has stopped without
\* a cancellation, no pipe is still open and no written line is left unread.
C17_OtherPipeStillServiced ==
    (pc = "wait" /\ ~hist.killSent) =>
        /\ ~outOpen /\ ~errOpen
        /\ outBuf = <<>> /\ errBuf = <<>>

\* C19 (as claimed): an iteration that ended because cancellation was
\* observed is not scored as completed: the run does not announce Completed,
\* also when the marker had been read earlier in that iteration.
C19_CancelledNotCompleted ==
    hist.killSent => "Completed" \notin printed

\* C20 (as claimed): every run that reaches the summary reports exactly one
\* terminal condition among Completed, Interrupted and Exhausted.
C20_OneTerminalCondition ==
    (Done /\ summary # NoSummary) => Cardinality(printed \cap Terminals) = 1

\* A further child is spawned in this step
SpawnsNext == spawned >= 1 /\ spawned' = spawned + 1

\* What holds whenever an iteration i+1 is started after iteration i
NextIterationStep ==
    SpawnsNext =>
        /\ spawned < max_iter
        /\ running
        /\ "Completed" \notin printed
        /\ pc = "loop_head"
        /\ current_iteration = spawned + 1

\* C21: an iteration i+1 is started only if, after iteration i finished,
\* i < max_iterations, the flag is still running and iteration i did not
\* observe the marker; so the children spawned never exceed the budget.
C21_NextIterationGuard ==
    /\ [][NextIterationStep]_vars
    /\ [](spawned <= max_iter \/ pc = "idle")

C21_Witness ==
    spawned = MaxIterBound /\ max_iter = MaxIterBound /\ child = "running"
        /\ listener = "armed"

\* C29: at most one agent child is alive at any time: a child is spawned
\* only when the one before has exited and been waited for, and between two
\* iterations no pipe of a child is held: none is read or written then.
C29_OneChildAtATime ==
    /\ ~hist.overlap
    /\ pc \in {"loop_head", "summary"} =>
          /\ child \in {"none", "reaped"}
          /\ stdinPipe = "none"
          /\ outBuf = <<>> /\ errBuf = <<>>
          /\ ~outOpen /\ ~errOpen
    /\ child \in {"running", "exited"} => pc \in {"write_stdin", "stream", "select", "wait", "done"}

C29_Witness ==
    spawned = 2 /\ child = "running" /\ pc = "select" /\ outBuf # <<>>

\* C30: in every iteration the prompt is written in full to the child's
\* standard input and the pipe is closed before the first read of the
\* child's output and before the wait for its exit: while the supervisor
\* reads or waits, the input pipe of the child is closed.
C30_PromptWrittenThenClosed ==
    /\ pc \in {"stream", "select", "wait"} => stdinPipe = "closed"
    /\ stdinPipe = "open" => pc = "write_stdin"

C30_Witness ==
    pc = "select" /\ stdinPipe = "closed" /\ child = "running" /\ spawned = 2

\* C32 (as claimed): when the run returns, on whatever path, every agent
\* child that was spawned has been waited for.
C32_EveryChildReaped ==
    Done => child \in {"none", "reaped"}

----------------------------------------------------------------------------
(* Properties of the preparation of a run, checked under SpecArchive *)

\* The preparation (load, resolution, reconcile, progress log) has just
\* succeeded and the loop has not started
AfterPreparation == pc = "loop_head" /\ spawned = 0 /\ current_iteration = 1

\* The task list was loaded in this run
Loaded == prd # NoFile

\* C6 (as claimed): with zero pending items in the loaded task list the run
\* returns success, reports no iteration and spawns no agent child.
C6_ZeroPendingAlwaysSucceeds ==
    (Done /\ Loaded /\ pending_stories(prd) = 0) =>
        /\ result = "Ok"
        /\ spawned = 0
        /\ summary.iterations <= 0

\* C6 (amended): with zero pending items in the loaded task list no agent
\* child is spawned, no run summary is printed and the run directory is left
\* as it was; the run returns success (announcing that all stories are
\* complete) exactly when the tool could be resolved, which is done first,
\* and an error otherwise.
C6_ZeroPendingShortCircuit ==
    (Done /\ Loaded /\ pending_stories(prd) = 0) =>
        /\ spawned = 0
        /\ child = "none"
        /\ summary = NoSummary
        /\ files = hist.files0
        /\ dirs = hist.dirs0
        /\ (result = "Ok") = (tool_cmd # None)
        /\ (result = "Ok") = ("AllComplete" \in printed)
        /\ (result = "Err") = (hist.probed # {} /\ hist.probed \cap installed = {})

C6_Witness ==
    Done /\ Loaded /\ pending_stories(prd) = 0 /\ total_stories(prd) > 0
         /\ result = "Ok" /\ Exists(files, LastBranchPath)

\* The recorded branch as handle_archive reads it: the content of
\* .last-branch at the start of the run without surrounding white space
RecordedAtStart == Trim(hist.files0[LastBranchPath].text)

\* A branch change in the sense of the claims: .last-branch existed at the
\* start of the run, its branch is not empty and is not the current one
ChangeAtStart ==
    /\ Exists(hist.files0, LastBranchPath)
    /\ RecordedAtStart # <<>>
    /\ RecordedAtStart # prd.branch

\* C7 (as claimed): after a reconcile that detected a branch change,
\* progress.txt holds only a fresh header, also when it existed before.
C7_ProgressResetOnChange ==
    (AfterPreparation /\ ChangeAtStart) => files[ProgressPath] = FreshHeader(clock)

\* The archive folder expected for the recorded branches of this model:
\* archive/<day>-a for "ralph/a", archive/<day>-b for "ralph/b"
ExpectedArchiveDir ==
    <<"archive",
      "d" \o ToString(today) \o (IF RecordedAtStart = BrA THEN "-a" ELSE "-b")>>

\* The run got past the load, the tool resolution and the zero-pending test
Prepared == pc # "idle" /\ Loaded /\ tool_cmd # None /\ pending_stories(prd) > 0

\* C8: a reconcile with a branch change succeeds when no file operation
\* fails, whichever of prd.json and progress.txt is missing; after it the
\* folder archive/<date>-<tail of the recorded branch> exists and holds a
\* copy of prd.json and of progress.txt as they were at the start, each
\* exactly when it existed, and nothing else was added to the archive.
C8_ArchiveCopies ==
    (Prepared /\ ChangeAtStart) =>
      /\ hist.fail = "none" => hist.reconciled
      /\ AfterPreparation =>
        /\ ExpectedArchiveDir \in dirs
        /\ ContentAt(files, ExpectedArchiveDir \o PrdJsonPath)
              = ContentAt(hist.files0, PrdJsonPath)
        /\ ContentAt(files, ExpectedArchiveDir \o ProgressPath)
              = ContentAt(hist.files0, ProgressPath)
        /\ (DOMAIN files) \ (DOMAIN hist.files0) \subseteq
              {ExpectedArchiveDir \o PrdJsonPath, ExpectedArchiveDir \o ProgressPath,
               ProgressPath, LastBranchPath}
        /\ dirs \ hist.dirs0 \subseteq {<<"archive">>, ExpectedArchiveDir}

C8_Witness ==
    /\ AfterPreparation /\ ChangeAtStart
    /\ ~Exists(hist.files0, PrdJsonPath)
    /\ Exists(hist.files0, ProgressPath)
    /\ Exists(files, ExpectedArchiveDir \o ProgressPath)
    /\ ~Exists(files, ExpectedArchiveDir \o PrdJsonPath)

\* C9 (as claimed): when the previous run reconciled with the same branch
\* identifier B, the reconcile of this run creates no archive folder, leaves
\* an existing progress.txt as it was and leaves .last-branch equal to B.
C9_SameBranchNoArchival ==
    (AfterPreparation /\ hist.prev.ok /\ hist.prev.branch = prd.branch) =>
        /\ dirs = hist.dirs0
        /\ DOMAIN files \subseteq (DOMAIN hist.files0) \cup {ProgressPath}
        /\ Exists(hist.files0, ProgressPath) =>
              files[ProgressPath] = hist.files0[ProgressPath]
        /\ files[LastBranchPath] = BranchContent(prd.branch)

NoRecordAtStart ==
    \/ ~Exists(hist.files0, LastBranchPath)
    \/ hist.files0[LastBranchPath].text = <<>>

\* C24: on a first run (no .last-branch) and on a run whose .last-branch is
\* empty, the reconcile succeeds when no file operation fails, creates no
\* archive folder, leaves an existing progress.txt unchanged and writes the
\* current branch to .last-branch.
C24_FirstRunNoArchive ==
    (Prepared /\ NoRecordAtStart) =>
      /\ hist.fail = "none" => hist.reconciled
      /\ dirs = hist.dirs0
      /\ hist.reconciled =>
          /\ ~hist.archived
          /\ "Archiving" \notin printed
          /\ files[LastBranchPath] = BranchContent(prd.branch)
          /\ AfterPreparation =>
              /\ DOMAIN files = (DOMAIN hist.files0) \cup {LastBranchPath, ProgressPath}
              /\ Exists(hist.files0, ProgressPath) =>
                    files[ProgressPath] = hist.files0[ProgressPath]

C24_Witness ==
    /\ AfterPreparation /\ Exists(hist.files0, LastBranchPath)
    /\ hist.files0[LastBranchPath].text = <<>>
    /\ Exists(hist.files0, ProgressPath)
    /\ files[LastBranchPath] = BranchContent(BrB)

\* C25: if a file operation of the reconcile step fails, the run returns an
\* error (the I/O error) and no agent child has been spawned in that run.
C25_ReconcileErrorIsFatal ==
    hist.fail # "none" =>
        /\ pc = "done"
        /\ result = "Err"
        /\ hist.err = IoError
        /\ spawned = 0
        /\ child = "none"
        /\ summary = NoSummary

C25_Witness ==
    /\ hist.fail = "copy_progress" /\ result = "Err"
    /\ ExpectedArchiveDir \in dirs
    /\ ~Exists(files, ExpectedArchiveDir \o ProgressPath)

\* The tool of this run cannot be resolved: "auto" was requested, no default
\* is configured that is installed, and no known agent is installed
Unresolvable ==
    /\ hist.tool = "auto"
    /\ config.default_tool = None \/ config.default_tool \notin installed
    /\ installed \cap Range(AgentOrder) = {}

\* C26: a run whose tool cannot be resolved fails before any on-disk state
\* is touched: the run directory (.last-branch, archive/, progress.txt) is as
\* it was and no child is spawned, whether or not stories are pending and
\* whether or not the branch changed.
C26_UnresolvedToolTouchesNothing ==
    (pc # "idle" /\ Loaded /\ Unresolvable) =>
        /\ pc = "done"
        /\ result = "Err"
        /\ hist.err = NoAgentError
        /\ files = hist.files0
        /\ dirs = hist.dirs0
        /\ spawned = 0
        /\ child = "none"
        /\ "AllComplete" \notin printed

C26_Witness ==
    /\ pc = "done" /\ Loaded /\ Unresolvable /\ ChangeAtStart
    /\ pending_stories(prd) > 0
    /\ ~Exists(files, ProgressPath)

\* The run is being prepared in this step
PreparationStep == pc = "idle" /\ pc' # "idle"

\* What one step may do to progress.txt
ProgressStep ==
    (ContentAt(files', ProgressPath) # ContentAt(files, ProgressPath)) =>
        \/ PreparationStep /\ (~Exists(files, ProgressPath) \/ ChangeAtStart')
                           /\ files'[ProgressPath] = FreshHeader(clock)
        \/ pc \notin {"idle", "done"} /\ child = "running" /\ pc' = pc

\* C28: the engine writes progress.txt (a fresh header) only when the file
\* is absent or a branch transition was detected; in a run without a branch
\* transition an existing progress.txt has the same content after the
\* engine's own steps as before, and only the agent child changes it.
C28_ProgressWrittenOnlyWhenAbsent ==
    [][ProgressStep]_vars

C28_Witness ==
    /\ AfterPreparation /\ ~ChangeAtStart
    /\ Exists(hist.files0, ProgressPath)
    /\ files[ProgressPath] = hist.files0[ProgressPath]
    /\ hist.prev.ok

\* The task list as the summary has to show it: the file as it is after the
\* loop when it can be read, the task list loaded before the run otherwise
ShownPrd ==
    IF files[<<prdName>>].kind = "prd" THEN files[<<prdName>>] ELSE prd

\* C27: a run that reaches the summary returns success also when the task
\* list cannot be reloaded after the loop; the summary then shows the story
\* counts loaded before the run, and the reloaded counts when the reload
\* succeeds.
C27_SummaryCountsAfterReload ==
    (Done /\ summary # NoSummary) =>
        /\ result = "Ok"
        /\ summary.total = Len(ShownPrd.stories)
        /\ summary.completed = Cardinality({i \in DOMAIN ShownPrd.stories : ShownPrd.stories[i]})

\* The reload succeeded and shows the story the agent completed in the run
C27_WitnessReloaded ==
    /\ Done /\ summary # NoSummary
    /\ files[<<prdName>>].kind = "prd"
    /\ completed_stories(prd) = 0
    /\ summary.completed = 1

\* The reload failed and the counts are those loaded before the run
C27_Witness ==
    /\ Done /\ summary # NoSummary /\ result = "Ok"
    /\ files[<<prdName>>] = Garbage
    /\ summary.total = total_stories(prd) /\ summary.total > 0

\* The reconcile step of this run failed part-way
ReconcileFailed == hist.fail # "none" /\ ~hist.reconciled

\* The previous run failed in a reconcile that had a branch change to handle,
\* and this run loaded a task list of the same branch
RetryAfterFailedChange ==
    pc # "idle" /\ Loaded /\ hist.prev.failedChange /\ prd.branch = hist.prev.branch

\* C31: when the reconcile step fails part-way, .last-branch is as it was
\* before the run (it is written last), and the next run with the same task
\* list finds the same branch change and archives again.
C31_FailedReconcileKeepsRecord ==
    /\ ReconcileFailed =>
          ContentAt(files, LastBranchPath) = ContentAt(hist.files0, LastBranchPath)
    /\ RetryAfterFailedChange =>
          /\ ChangeAtStart
          /\ (Prepared /\ hist.fail # "read_last") => "Archiving" \in printed
          /\ AfterPreparation => (hist.archived /\ ExpectedArchiveDir \in dirs)

\* The run after a failed copy detected the branch change again and archived
C31_Witness ==
    /\ RetryAfterFailedChange /\ AfterPreparation
    /\ hist.archived
    /\ files[LastBranchPath] = BranchContent(prd.branch)

----------------------------------------------------------------------------
(* Properties of the archive over several runs, checked under SpecSwitch *)

\* A file of an archive entry
InArchive(path) == Len(path) > 1 /\ path[1] = "archive"

\* No step changes a file that an archive entry holds
ArchiveKept ==
    \A path \in DOMAIN files :
        InArchive(path) => ContentAt(files', path) = files[path]

\* C22 (as claimed): once an archive entry exists no later run modifies it,
\* whatever the sequence of runs and branch changes: every file of the entry
\* keeps the content it had when the entry was created.
C22_ArchiveEntryNeverModified == [][ArchiveKept]_vars

\* The branch identifier after its last "/"
RECURSIVE BranchTail(_)
BranchTail(s) ==
    IF \E i \in DOMAIN s : s[i] = "/"
    THEN BranchTail(SubSeq(s, (CHOOSE i \in DOMAIN s : s[i] = "/") + 1, Len(s)))
    ELSE s

\* The archive folder of the claim: archive/<date>-<name>, one component
\* below the archive directory
ClaimedArchiveDir == <<"archive", "d" \o ToString(today) \o "-" \o Components(BranchTail(RecordedAtStart), "")[1]>>

\* C23 (as claimed): for every recorded branch prefix/name, with the prefix
\* "ralph" or any other, the reconcile that detects a branch change creates
\* the folder archive/<date>-name, a single level below archive/, and no
\* other directory.
C23_AnyPrefixStripped ==
    (AfterPreparation /\ ChangeAtStart) =>
        /\ ClaimedArchiveDir \in dirs
        /\ dirs \ hist.dirs0 \subseteq {<<"archive">>, ClaimedArchiveDir}

----------------------------------------------------------------------------
(* Properties of the tool resolution and the spawn, checked under SpecTool *)

\* The run got past the tool resolution, or failed in it
Resolved == pc # "idle" /\ Loaded

\* C11: for every requested tool other than "auto", built-in or custom, the
\* resolved command is exactly the requested name, whatever the configured
\* default and whatever is installed; no command is probed and the
\* resolution does not fail.
C11_ExplicitToolAsIs ==
    (Resolved /\ hist.tool # "auto") =>
        /\ tool_cmd = hist.tool
        /\ hist.probed = {}
        /\ hist.err.kind # "no_agent"

C11_Witness ==
    /\ Resolved /\ hist.tool = "mytool" /\ tool_cmd = "mytool"
    /\ config.default_tool = "claude" /\ "claude" \in installed
    /\ "mytool" \notin installed

\* What the claim C12 expects of "auto": the configured default when it is
\* set and present, else the first present agent in the order amp, claude,
\* codebuddy, else None
ExpectedAuto ==
    IF config.default_tool # None /\ config.default_tool \in hist.installed0
    THEN config.default_tool
    ELSE IF "amp" \in hist.installed0 THEN "amp"
    ELSE IF "claude" \in hist.installed0 THEN "claude"
    ELSE IF "codebuddy" \in hist.installed0 THEN "codebuddy"
    ELSE None

\* C12: for the requested tool "auto" the resolved command is the configured
\* default when one is set and present; otherwise the first present agent in
\* the order amp, claude, codebuddy; when no agent is present the run fails
\* with the "No AI agent CLI detected" error. For every configured default
\* and every set of present commands.
C12_AutoResolution ==
    (Resolved /\ hist.tool = "auto") =>
        /\ tool_cmd = ExpectedAuto
        /\ (ExpectedAuto = None) = (hist.err = NoAgentError)
        /\ ExpectedAuto = None => (pc = "done" /\ result = "Err" /\ spawned = 0)

C12_Witness ==
    /\ Resolved /\ hist.tool = "auto"
    /\ config.default_tool = "mytool" /\ "mytool" \notin hist.installed0
    /\ hist.installed0 = {"claude", "codebuddy"}
    /\ tool_cmd = "claude"

\* C15: when the spawn of the agent command fails, in whatever iteration,
\* the run returns an error that names the attempted command, and it ends
\* there: the children spawned are those of the iterations before.
C15_SpawnErrorIsFatal ==
    hist.err.kind = "spawn" =>
        /\ pc = "done"
        /\ result = "Err"
        /\ hist.err.cmd = tool_cmd
        /\ tool_cmd \notin installed
        /\ spawned = current_iteration - 1
        /\ child \in {"none", "reaped"}
        /\ summary = NoSummary

C15_Witness ==
    /\ hist.err = SpawnError("claude") /\ pc = "done" /\ result = "Err"
    /\ spawned = 1 /\ max_iter > 1

----------------------------------------------------------------------------
(* Properties of the supervision of one child, checked under SpecStream *)

\* The lines of the model whose text holds the case-sensitive literal
LiteralLines == {"marker", "embedded"}

\* The multiplexer takes a line off the standard output / standard error
ReadsStdout == pc = "select" /\ outBuf # <<>> /\ outBuf' = Tail(outBuf)
ReadsStderr == pc = "select" /\ errBuf # <<>> /\ errBuf' = Tail(errBuf)

\* What one step may do to the completion flag
FlagStep ==
    /\ ReadsStdout =>
          found_complete' = (found_complete \/ Head(outBuf) \in LiteralLines)
    /\ ReadsStderr => found_complete' = found_complete
    /\ (found_complete' # found_complete) =>
          \/ ReadsStdout /\ found_complete'
          \/ pc = "wait" /\ pc' \in {"loop_head", "summary"}

\* C13: within one iteration the completion flag starts false; it becomes
\* true exactly when a standard-output line holding the case-sensitive
\* literal <promise>COMPLETE</promise> is read; once true it stays true until
\* the iteration returns; reading a standard-error line never changes it.
C13_FlagSetByStdoutMarkerOnly ==
    /\ [](pc = "write_stdin" => ~found_complete)
    /\ [][FlagStep]_vars

\* A marker was read and the scan went on over a line that differs in case
C13_Witness ==
    /\ found_complete /\ pc = "stream" /\ hist.seenLower
    /\ errOpen /\ outOpen

\* What one step may do to the cancellation flag
CancelFlagStep ==
    /\ (running' # running) =>
          (running /\ listener = "armed" /\ listener' = "fired")
    /\ listener = "fired" => (listener' = "fired" /\ ~running /\ ~running')
    /\ (listener = "fired" /\ hist.interrupts' > hist.interrupts) =>
          UNCHANGED <<envVars, engineVars, childVars, spawned>>

\* C16: the flag starts as running; only the Ctrl+C listener writes it, at
\* most once per run; it never goes from stopped back to running; a further
\* interrupt changes nothing of the run.
C16_FlagWrittenOnce ==
    /\ [](listener = "none" => running)
    /\ [](hist.flagWrites <= 1)
    /\ [][CancelFlagStep]_vars

C16_Witness ==
    ~running /\ listener = "fired" /\ hist.interrupts = MaxInterrupts
             /\ hist.flagWrites = 1 /\ child = "running"

\* C18 (as claimed): cancellation is one of the events the multiplexer waits
\* for: once the flag is stopped while the multiplexer waits for a running
\* child, the wait ends, also when the child writes no further line and
\* closes no pipe (after which the child is killed and the run Interrupted).
C18_CancelEndsWait ==
    (pc = "select" /\ ~running /\ child = "running") ~> (pc # "select")

----------------------------------------------------------------------------
(* Properties of the pipes with bounded buffers, checked under SpecPipe *)

\* The child has a line to write and every stream it still holds is full
ChildWriteBlocked ==
    /\ child = "running" /\ linesLeft > 0
    /\ outOpen \/ errOpen
    /\ outOpen => Len(outBuf) >= PipeCap
    /\ errOpen => Len(errBuf) >= PipeCap

\* write_all cannot go on: the pipe is full and the child does not read
PromptWriteBlocked ==
    /\ pc = "write_stdin" /\ stdinPipe = "open"
    /\ ~PromptFits /\ ~ChildReadsInput

\* C33 (as claimed): the supervisor is never waiting for the exit of the
\* child while the child is blocked on a full pipe that is no longer read.
C33_NoWaitOnUndrainedPipe ==
    ~(pc = "wait" /\ ChildWriteBlocked)

\* C34 (as claimed): the supervisor is never blocked in the write of the
\* prompt while the child, writing its output before it reads its input, is
\* blocked on a full output pipe.
C34_PromptWriteNeverDeadlocks ==
    ~(PromptWriteBlocked /\ ChildWriteBlocked)

====
